---- MODULE Spec2Model ----
(***************************************************************************)
(* A model of apa_plotter.py: get_score, plot_hic_map and main.            *)
(*                                                                         *)
(* Numbers.  Matrix elements are naturals.  A float64 result is a record   *)
(* [kind, num, den]: kind "finite" carries the exact reduced fraction      *)
(* num/den (den > 0); "nan", "inf" and "neginf" are the IEEE specials that *)
(* numpy produces (with a RuntimeWarning, not an exception) for an empty   *)
(* mean and for a division by zero.                                        *)
(*                                                                         *)
(* Arrays.  An array is [shape, cells]: shape is the tuple of dimensions,  *)
(* cells maps a 0-based index tuple (<<k>> for a 1-D array, <<row, col>>   *)
(* for a 2-D one) to its element.                                          *)
(*                                                                         *)
(* Strings.  A path is a sequence of one-character strings.                *)
(***************************************************************************)
EXTENDS Integers, Sequences, FiniteSets, TLC

VARIABLES
    argv,     \* sys.argv: program name followed by the arguments
    fs,       \* the file system: path -> content, for the paths that exist
    writable, \* whether the output location can be written
    pc,       \* position of main (or of the caller of get_score)
    data,     \* the array loaded by np.load (NoData before)
    ret,      \* what get_score returned or raised, with its locals
    shown,    \* the axes: the image given to matshow, vmin, vmax, title
    stdout,   \* lines printed
    io,       \* log of the file operations performed: <<"load"|"save", path>>
    exitCode, \* process exit status (Running before the exit)
    exc       \* the uncaught exception that ended the run ("none" otherwise)

vars == <<argv, fs, writable, pc, data, ret, shown, stdout, io, exitCode, exc>>

(***************************************************************************)
(* Bounds of the model.                                                    *)
(***************************************************************************)
MaxN == 10       \* largest matrix side for which get_score is explored
MaxPieces == 3   \* a path is a concatenation of at most MaxPieces pieces
MaxArgs == 2     \* largest number of command-line arguments

Values == {0, 4, 10}

\* exitCode while the process has not exited.
Running == 0 - 1

(***************************************************************************)
(* float64 arithmetic                                                      *)
(***************************************************************************)
Abs(x) == IF x < 0 THEN -x ELSE x

RECURSIVE Gcd(_, _)
Gcd(a, b) == IF b = 0 THEN a ELSE Gcd(b, a % b)

NaN == [kind |-> "nan", num |-> 0, den |-> 1]
Inf == [kind |-> "inf", num |-> 0, den |-> 1]
NegInf == [kind |-> "neginf", num |-> 0, den |-> 1]
NoNum == [kind |-> "none", num |-> 0, den |-> 1]

\* The finite value n/d, d # 0, as a reduced fraction with positive denominator.
Frac(n, d) ==
    LET g == Gcd(Abs(n), Abs(d))
        s == IF d < 0 THEN -1 ELSE 1
    IN  [kind |-> "finite", num |-> (s * n) \div g, den |-> (s * d) \div g]

\* True division of an element (an integer) by a float64, as numpy computes
\* it: x / nan = nan, x / 0.0 = +-inf (nan when x = 0), never an exception.
TrueDivide(center, mean) ==
    IF mean.kind = "nan" THEN NaN
    ELSE IF mean.num = 0
         THEN IF center > 0 THEN Inf ELSE IF center < 0 THEN NegInf ELSE NaN
         ELSE Frac(center * mean.den, mean.num)

(***************************************************************************)
(* numpy indexing and reductions                                           *)
(***************************************************************************)
\* The indices selected by the slice  start:  on an axis of length n.
SliceFrom(start, n) ==
    LET s == IF start < 0
             THEN (IF start + n < 0 THEN 0 ELSE start + n)
             ELSE (IF start > n THEN n ELSE start)
    IN  s .. (n - 1)

\* The indices selected by the slice  :stop  on an axis of length n.
SliceTo(stop, n) ==
    LET e == IF stop < 0
             THEN (IF stop + n < 0 THEN 0 ELSE stop + n)
             ELSE (IF stop > n THEN n ELSE stop)
    IN  0 .. (e - 1)

Size(m) == Cardinality(DOMAIN m.cells)

Greater(a, b) == IF b > a THEN b ELSE a

\* The maximum of acc and the elements j, ..., n - 1 of row i (of the
\* elements j, ..., n - 1 when m is 1-D and i is the empty prefix).
RECURSIVE MaxFrom(_, _, _, _, _)
MaxFrom(m, i, j, n, acc) ==
    IF j >= n THEN acc
    ELSE MaxFrom(m, i, j + 1, n, Greater(acc, m.cells[i \o <<j>>]))

\* The maximum of row i of a 2-D array with at least one column.
RowMax(m, i) == MaxFrom(m, <<i>>, 1, m.shape[2], m.cells[<<i, 0>>])

\* The maximum of acc and the maxima of rows i, ..., n - 1.
RECURSIVE MaxOfRows(_, _, _, _)
MaxOfRows(m, i, n, acc) ==
    IF i >= n THEN acc
    ELSE MaxOfRows(m, i + 1, n, Greater(acc, RowMax(m, i)))

\* A reduction with the comparison reversed (np.min).
NpMin(m) ==
    CHOOSE v \in {m.cells[c] : c \in DOMAIN m.cells} :
        \A c \in DOMAIN m.cells : v <= m.cells[c]
\* np.max over every element of a non-empty 1-D or 2-D array.
NpMax(m) ==
    IF Len(m.shape) = 1
    THEN MaxFrom(m, <<>>, 1, m.shape[1], m.cells[<<0>>])
    ELSE MaxOfRows(m, 1, m.shape[1], RowMax(m, 0))

RECURSIVE SumCells(_, _)
SumCells(m, S) ==
    IF S = {} THEN 0
    ELSE LET c == CHOOSE x \in S : TRUE IN m.cells[c] + SumCells(m, S \ {c})

\* np.mean over the elements at the index set S: nan for an empty selection.
NpMean(m, S) ==
    IF S = {} THEN NaN ELSE Frac(SumCells(m, S), Cardinality(S))

(***************************************************************************)
(* get_score                                                               *)
(***************************************************************************)
Raised(e) ==
    [outcome |-> "raised", exc |-> e, score |-> NoNum, color_limit |-> 0,
     rows |-> 0, buffer |-> 0, center |-> 0, lower_left_mean |-> NoNum,
     block |-> {}]

\* Before get_score has been called.
NoRet ==
    [outcome |-> "none", exc |-> "none", score |-> NoNum, color_limit |-> 0,
     rows |-> 0, buffer |-> 0, center |-> 0, lower_left_mean |-> NoNum,
     block |-> {}]

\* matrix[:buffer, :buffer]: the upper-left corner instead of the lower-left.
UpperLeftBlock(m, buffer) ==
    SliceTo(buffer, m.shape[1]) \X SliceTo(buffer, m.shape[2])
\* matrix[-buffer:, :buffer]: the selected index set of a 2-D array.
LowerLeftBlock(m, buffer) ==
    SliceFrom(-buffer, m.shape[1]) \X SliceTo(buffer, m.shape[2])

get_score(m) ==
    LET rows == m.shape[1]
        buffer == rows \div 4
    IN  \* np.max of a zero-size array raises ValueError
        IF Size(m) = 0 THEN Raised("ValueError")
        \* matrix[r, r] on a 1-D array, or out of range: IndexError
        ELSE IF Len(m.shape) < 2 \/ rows \div 2 >= m.shape[2]
        THEN Raised("IndexError")
        ELSE LET color_limit == NpMax(m)
                 center == m.cells[<<rows \div 2, rows \div 2>>]
                 block == LowerLeftBlock(m, buffer)
                 lower_left_mean == NpMean(m, block)
                 score == TrueDivide(center, lower_left_mean)
             IN  [outcome |-> "returned", exc |-> "none", score |-> score,
                  color_limit |-> color_limit, rows |-> rows,
                  buffer |-> buffer, center |-> center,
                  lower_left_mean |-> lower_left_mean, block |-> block]

(***************************************************************************)
(* Strings: str.replace and the format specification .2f                   *)
(***************************************************************************)
Npy == <<".", "n", "p", "y">>
Png == <<".", "p", "n", "g">>

StartsWith(s, old) ==
    Len(s) >= Len(old) /\ SubSeq(s, 1, Len(old)) = old

EndsWith(s, suffix) ==
    Len(s) >= Len(suffix)
    /\ SubSeq(s, Len(s) - Len(suffix) + 1, Len(s)) = suffix

\* s.replace(old, new) for a non-empty old: every non-overlapping occurrence,
\* scanning from the left.
RECURSIVE Replace(_, _, _)
Replace(s, old, new) ==
    IF s = <<>> THEN <<>>
    ELSE IF StartsWith(s, old)
         THEN new \o Replace(SubSeq(s, Len(old) + 1, Len(s)), old, new)
         ELSE <<Head(s)>> \o Replace(Tail(s), old, new)

NoTitle == [kind |-> "none", hundredths |-> 0]

\* f'{score:.2f}': 'nan', 'inf', '-inf', or the value rounded to two decimals
\* (in hundredths), ties to even.
Format2f(x) ==
    IF x.kind # "finite" THEN [kind |-> x.kind, hundredths |-> 0]
    ELSE LET q == (100 * x.num) \div x.den
             r == (100 * x.num) % x.den
             up == 2 * r > x.den \/ (2 * r = x.den /\ q % 2 = 1)
         IN  [kind |-> "finite", hundredths |-> IF up THEN q + 1 ELSE q]

(***************************************************************************)
(* Inputs                                                                  *)
(***************************************************************************)
NoData == [shape |-> <<>>, cells |-> <<>>]

Cells(n) == (0 .. n - 1) \X (0 .. n - 1)

Uniform(n, v) == [shape |-> <<n, n>>, cells |-> [c \in Cells(n) |-> v]]

\* The cells of an n x n matrix that the explored inputs vary freely: the
\* last two rows of the first two columns, the midpoint and the first cell.
IsFree(n, c) ==
    \/ (c[1] >= n - 2 /\ c[2] <= 1)
    \/ c = <<n \div 2, n \div 2>>
    \/ c = <<0, 0>>

FreeCells(n) == {c \in Cells(n) : IsFree(n, c)}

\* The n x n matrix that is f on FreeCells(n) and bg elsewhere.
Matrix(n, f, bg) ==
    [shape |-> <<n, n>>,
     cells |-> [c \in Cells(n) |-> IF IsFree(n, c) THEN f[c] ELSE bg]]

\* N = 8, zeros except the midpoint (10) and the lower-left 2 x 2 block (4).
Example8 ==
    [shape |-> <<8, 8>>,
     cells |-> [c \in Cells(8) |->
                  IF c = <<4, 4>> THEN 10
                  ELSE IF c[1] >= 6 /\ c[2] <= 1 THEN 4 ELSE 0]]

\* N = 4, zeros except the midpoint: the corner block is all zero.
ZeroCorner4 ==
    [shape |-> <<4, 4>>,
     cells |-> [c \in Cells(4) |-> IF c = <<2, 2>> THEN 10 ELSE 0]]

\* A 1-D array of four elements.
Vector4 == [shape |-> <<4>>, cells |-> [c \in {<<k>> : k \in 0 .. 3} |-> 4]]

\* The arrays a loadable input file holds in the runs of main explored.
CliArrays ==
    <<Uniform(0, 0), Uniform(2, 0), Uniform(2, 4), Uniform(4, 0),
      Uniform(4, 4), Example8, ZeroCorner4, Vector4>>

File(kind, array, title) == [kind |-> kind, array |-> array, title |-> title]

Pieces == {<<"a">>, Npy, <<"/">>, <<".", "n">>, <<"p", "y">>}

RECURSIVE PathsOf(_)
PathsOf(k) ==
    IF k = 0 THEN {<<>>}
    ELSE LET P == PathsOf(k - 1) IN P \cup {p \o q : p \in P, q \in Pieces}

\* The file names explored: non-empty, not ending in the directory separator.
Paths == {p \in PathsOf(MaxPieces) : p # <<>> /\ p[Len(p)] # "/"}

Prog == <<"apa_plotter.py">>

\* The paths given when the argument count is wrong.
SamplePaths == {<<"a">> \o Npy, <<"a">>}

EmptyFs == [p \in {} |-> File("garbage", NoData, NoTitle)]

NoAxes == [image |-> NoData, vmin |-> 0, vmax |-> 0, title |-> NoTitle]

UsageMsg == "Usage: python apa_plotter.py [input_file.npy]"

(***************************************************************************)
(* main                                                                    *)
(***************************************************************************)
\* The file system holds nothing, or one file: at the first argument.
InitFs(args) ==
    \/ fs = EmptyFs
    \/ /\ args # <<>>
       /\ \/ \E k \in {"garbage", "unreadable"} :
                fs = (args[1] :> File(k, NoData, NoTitle))
          \/ \E i \in 1 .. Len(CliArrays) :
                fs = (args[1] :> File("npy", CliArrays[i], NoTitle))

Init ==
    /\ \/ argv = <<Prog>> /\ InitFs(<<>>)
       \/ \E p \in Paths : argv = <<Prog, p>> /\ InitFs(<<p>>)
       \/ \E k \in 2 .. MaxArgs : \E args \in [1 .. k -> SamplePaths] :
             argv = <<Prog>> \o args /\ InitFs(args)
    /\ writable \in BOOLEAN
    /\ pc = "start"
    /\ data = NoData
    /\ ret = NoRet
    /\ shown = NoAxes
    /\ stdout = <<>>
    /\ io = <<>>
    /\ exitCode = Running
    /\ exc = "none"

\* An uncaught exception e: the interpreter prints the traceback and exits 1.
Uncaught(e) ==
    /\ exc' = e
    /\ exitCode' = 1
    /\ pc' = "exit"

\* if len(sys.argv) != 2: print usage, sys.exit(1); but with the exit missing.
CheckArgsNoExit ==
    /\ pc = "start"
    /\ stdout' = IF Len(argv) # 2 THEN Append(stdout, UsageMsg) ELSE stdout
    /\ pc' = "load"
    /\ UNCHANGED <<argv, fs, writable, data, ret, shown, io, exitCode, exc>>
CheckArgs ==
    /\ pc = "start"
    /\ IF Len(argv) # 2
       THEN /\ stdout' = Append(stdout, UsageMsg)
            /\ exitCode' = 1
            /\ pc' = "exit"
       ELSE /\ pc' = "load"
            /\ UNCHANGED <<stdout, exitCode>>
    /\ UNCHANGED <<argv, fs, writable, data, ret, shown, io, exc>>

\* np.load that falls back to a default matrix when the file cannot be read.
NpLoadOrDefault(fsys, path) ==
    IF path \in DOMAIN fsys /\ fsys[path].kind = "npy"
    THEN [outcome |-> "returned", exc |-> "none", array |-> fsys[path].array]
    ELSE [outcome |-> "returned", exc |-> "none", array |-> Uniform(4, 4)]
\* np.load(path): the array stored in the file, or the exception raised.
NpLoad(fsys, path) ==
    IF path \notin DOMAIN fsys
    THEN [outcome |-> "raised", exc |-> "FileNotFoundError", array |-> NoData]
    ELSE IF fsys[path].kind = "unreadable"
    THEN [outcome |-> "raised", exc |-> "PermissionError", array |-> NoData]
    ELSE IF fsys[path].kind # "npy"
    THEN [outcome |-> "raised", exc |-> "ValueError", array |-> NoData]
    ELSE [outcome |-> "returned", exc |-> "none", array |-> fsys[path].array]

\* data = np.load(sys.argv[1]); fig, ax = plt.subplots(figsize=(5, 5))
Load ==
    /\ pc = "load"
    /\ IF Len(argv) < 2
       THEN /\ Uncaught("IndexError")
            /\ UNCHANGED <<data, io>>
       ELSE LET r == NpLoad(fs, argv[2])
            IN  /\ io' = Append(io, <<"load", argv[2], r.outcome>>)
                /\ IF r.outcome = "raised"
                   THEN /\ Uncaught(r.exc)
                        /\ UNCHANGED data
                   ELSE /\ data' = r.array
                        /\ pc' = "loaded"
                        /\ UNCHANGED <<exitCode, exc>>
    /\ UNCHANGED <<argv, fs, writable, ret, shown, stdout>>

\* The elements of m rescaled in place by limit (integer part).
Rescaled(m, limit) ==
    [m EXCEPT !.cells = [c \in DOMAIN m.cells |->
                            IF limit = 0 THEN 0 ELSE m.cells[c] \div limit]]

\* plot_hic_map, but normalising dense_matrix in place before drawing it.
plot_hic_map_in_place ==
    /\ pc = "loaded"
    /\ LET r == get_score(data)
       IN  /\ ret' = r
           /\ IF r.outcome = "raised"
              THEN /\ Uncaught(r.exc)
                   /\ UNCHANGED <<shown, data>>
              ELSE /\ data' = Rescaled(data, r.color_limit)
                   /\ shown' = [image |-> data', vmin |-> 0, vmax |-> 1,
                                title |-> Format2f(r.score)]
                   /\ pc' = "plotted"
                   /\ UNCHANGED <<exitCode, exc>>
    /\ UNCHANGED <<argv, fs, writable, stdout, io>>
\* plot_hic_map(data, ax): get_score, matshow, tick parameters, set_title.
plot_hic_map ==
    /\ pc = "loaded"
    /\ LET r == get_score(data)
       IN  /\ ret' = r
           /\ IF r.outcome = "raised"
              THEN /\ Uncaught(r.exc)
                   /\ UNCHANGED shown
              ELSE /\ shown' = [image |-> data, vmin |-> 0,
                                vmax |-> r.color_limit,
                                title |-> Format2f(r.score)]
                   /\ pc' = "plotted"
                   /\ UNCHANGED <<exitCode, exc>>
    /\ UNCHANGED <<argv, fs, writable, data, stdout, io>>

\* output_location = sys.argv[1].replace(".npy", '.png')
output_location(path) == Replace(path, Npy, Png)

\* plt.savefig(output_location, format='png')
SaveFig ==
    /\ pc = "plotted"
    /\ LET out == output_location(argv[2])
       IN  IF writable
           THEN /\ fs' = [q \in DOMAIN fs \cup {out} |->
                            IF q = out
                            THEN File("png", shown.image, shown.title)
                            ELSE fs[q]]
                /\ io' = Append(io, <<"save", out, "returned">>)
                /\ pc' = "saved"
                /\ UNCHANGED <<exitCode, exc>>
           ELSE /\ Uncaught("PermissionError")
                /\ io' = Append(io, <<"save", out, "raised">>)
                /\ UNCHANGED fs
    /\ UNCHANGED <<argv, writable, data, ret, shown, stdout>>

\* plt.close(fig); main returns and the process exits with status 0.
Close ==
    /\ pc = "saved"
    /\ exitCode' = 0
    /\ pc' = "exit"
    /\ UNCHANGED <<argv, fs, writable, data, ret, shown, stdout, io, exc>>

Next == CheckArgs \/ Load \/ plot_hic_map \/ SaveFig \/ Close

Spec == Init /\ [][Next]_vars

(***************************************************************************)
(* get_score on its own, over the matrices Matrix(n, f, bg), n <= MaxN      *)
(***************************************************************************)
InitScore ==
    /\ argv = <<Prog>>
    /\ fs = EmptyFs
    /\ writable = TRUE
    /\ pc = "call"
    /\ \E n \in 0 .. MaxN :
          \E f \in [FreeCells(n) -> Values], bg \in Values :
              data = Matrix(n, f, bg)
    /\ ret = NoRet
    /\ shown = NoAxes
    /\ stdout = <<>>
    /\ io = <<>>
    /\ exitCode = Running
    /\ exc = "none"

\* score, color_limit = get_score(matrix)
call_get_score ==
    /\ pc = "call"
    /\ ret' = get_score(data)
    /\ pc' = "returned"
    /\ UNCHANGED <<argv, fs, writable, data, shown, stdout, io, exitCode, exc>>

NextScore == call_get_score

SpecScore == InitScore /\ [][NextScore]_vars

(***************************************************************************)
(* Properties                                                              *)
(***************************************************************************)
Side == data.shape[1]

\* floor(n / d) stated without division.
Floor(n, d) == CHOOSE q \in 0 .. n : d * q <= n /\ n < d * (q + 1)

\* The last floor(n/4) rows of the first floor(n/4) columns.
CornerBlock(n) ==
    {c \in Cells(n) : c[1] >= n - Floor(n, 4) /\ c[2] < Floor(n, 4)}

CornerSum == SumCells(data, CornerBlock(Side))

Midpoint == data.cells[<<Floor(Side, 2), Floor(Side, 2)>>]

Half == [kind |-> "finite", num |-> 5, den |-> 2]

\* C1: for an N x N matrix, N >= 4, whose lower-left block has a non-zero
\* mean, get_score returns a finite score with
\* score * (sum of the block) = center * buffer^2, buffer = floor(N/4)
\* (1 for N = 7, 2 for N = 10); the N = 8 example scores 2.5.
C1_ScoreIsCenterOverCornerMean ==
    (pc = "returned" /\ Side >= 4 /\ CornerSum # 0) =>
        /\ ret.outcome = "returned"
        /\ ret.buffer = Floor(Side, 4)
        /\ (Side = 7 => ret.buffer = 1)
        /\ (Side = 10 => ret.buffer = 2)
        /\ ret.score.kind = "finite"
        /\ ret.score.num * CornerSum
             = Midpoint * ret.buffer * ret.buffer * ret.score.den
        /\ (data = Example8 => ret.score = Half)

C1_Witness ==
    /\ pc = "returned"
    /\ data = Example8
    /\ ret.outcome = "returned"
    /\ ret.score = Half

\* C2: for a matrix of side N < 4 the score computation fails with an
\* explicit error and returns no (score, colorLimit) pair.
C2_SmallMatrixRaises ==
    (pc = "returned" /\ Side < 4) => ret.outcome = "raised"

\* C3: for a matrix of side N >= 4 whose lower-left block is all zero the
\* score computation fails with an explicit error, whatever the center is.
C3_ZeroCornerRaises ==
    (pc = "returned" /\ Side >= 4
        /\ \A c \in CornerBlock(Side) : data.cells[c] = 0)
        => ret.outcome = "raised"

\* C4: the colorLimit get_score returns is an element of the matrix, is at
\* least every element, every element is at least 0, and for a uniform
\* matrix of value v > 0 it is v.
C4_ColorLimitIsMatrixMaximum ==
    (pc = "returned" /\ ret.outcome = "returned") =>
        /\ \E c \in DOMAIN data.cells : data.cells[c] = ret.color_limit
        /\ \A c \in DOMAIN data.cells :
              ret.color_limit >= data.cells[c] /\ data.cells[c] >= 0
        /\ \A v \in Values \ {0} :
              data = Uniform(Side, v) => ret.color_limit = v

C4_Witness ==
    /\ pc = "returned"
    /\ ret.outcome = "returned"
    /\ Side = 5
    /\ ret.center < ret.color_limit
    /\ data.cells[<<0, 0>>] < ret.color_limit

SaveEvents == {i \in 1 .. Len(io) : io[i][1] = "save"}

\* The images written in a run whose score is defined.
GoodSaves ==
    {i \in SaveEvents : io[i][3] = "returned" /\ ret.score.kind = "finite"}

NoImageFile == \A p \in DOMAIN fs : fs[p].kind # "png"

\* C5: with an argument count other than one, the run prints the usage
\* message and exits with code 1; nothing is loaded and no file is written.
C5_UsageErrorDoesNoFileIO ==
    Len(argv) # 2 =>
        /\ pc \in {"start", "exit"}
        /\ data = NoData
        /\ io = <<>>
        /\ NoImageFile
        /\ (pc = "exit" => exitCode = 1 /\ stdout = <<UsageMsg>>)

C5_Witness ==
    /\ Len(argv) = 3
    /\ argv[2] \in DOMAIN fs
    /\ fs[argv[2]].kind = "npy"
    /\ pc = "exit"
    /\ exitCode = 1

\* The single argument names a file that is missing, unreadable, not an
\* array file, or an array that is not 2-D.
BadInput ==
    /\ Len(argv) = 2
    /\ \/ argv[2] \notin DOMAIN fs
       \/ fs[argv[2]].kind \in {"garbage", "unreadable"}
       \/ fs[argv[2]].kind = "npy" /\ Len(fs[argv[2]].array.shape) # 2

\* C6: with one argument naming a missing, unreadable or invalid file the
\* run ends with an error and exit code 1, and never reaches the save step:
\* no output file is created.
C6_LoadErrorWritesNothing ==
    BadInput =>
        /\ pc \notin {"plotted", "saved"}
        /\ SaveEvents = {}
        /\ NoImageFile
        /\ (pc = "exit" => exitCode = 1 /\ exc # "none")

C6_Witness ==
    /\ Len(argv) = 2
    /\ argv[2] \notin DOMAIN fs
    /\ pc = "exit"
    /\ exc = "FileNotFoundError"
    /\ io = <<<<"load", argv[2], "raised">>>>

\* C7: exit code 0 with a written image occurs only after load, score, render
\* and save completed in that order with a defined score; a run whose score
\* is undefined (N < 4 or zero corner mean) neither saves nor exits 0.
C7_ErrorsAreTerminal ==
    /\ (pc = "exit" /\ exitCode = 0) =>
          /\ ret.outcome = "returned"
          /\ ret.score.kind = "finite"
          /\ io = <<<<"load", argv[2], "returned">>,
                    <<"save", output_location(argv[2]), "returned">>>>
    /\ (ret.outcome = "returned" /\ ret.score.kind # "finite") =>
          /\ pc # "saved"
          /\ \A i \in SaveEvents : io[i][3] = "raised"
          /\ (pc = "exit" => exitCode # 0)

\* C8: computing the score and rendering leave the loaded matrix as it was,
\* and the matrix drawn is the matrix loaded.
C8_MatrixNotMutated ==
    [][/\ data # NoData => data' = data
       /\ (pc = "loaded" /\ pc' = "plotted") => shown'.image = data]_vars

C8_Witness ==
    /\ pc = "plotted"
    /\ data = Example8
    /\ shown.image = Example8
    /\ ret.outcome = "returned"

\* s with only a trailing occurrence of old replaced by new.
ReplaceSuffix(s, old, new) ==
    IF EndsWith(s, old) THEN SubSeq(s, 1, Len(s) - Len(old)) \o new ELSE s

\* C9: the output path is the input path with only its trailing '.npy'
\* replaced by '.png'; every other part of the path is unchanged.
C9_OnlyTrailingExtensionReplaced ==
    \A i \in GoodSaves :
        EndsWith(argv[2], Npy) => io[i][2] = ReplaceSuffix(argv[2], Npy, Png)

\* C10: in a successful run the output path differs from the input path:
\* the save step does not overwrite the input matrix file.
C10_InputNotOverwritten ==
    \A i \in GoodSaves : io[i][2] # argv[2] /\ fs[argv[2]].kind = "npy"

====
